---- MODULE Spec2Model ----
(***************************************************************************)
(* A model of the CORD-19 metadata explorer: the batch explorer            *)
(* (scripts/explore.py, main) and the interactive viewer (scripts/app.py). *)
(*                                                                         *)
(* Text is a sequence of one-character strings, so that normalisation,     *)
(* tokenisation and substring search are computed character by character.  *)
(* A table cell is a record: Null (NaN / NaT / pd.NA), Str(text), Num(n)   *)
(* or Date(y, m, d).  A dataframe is [columns, data, index] with data a    *)
(* sequence of rows, each row aligned to columns, and index the row labels *)
(* (0, 1, ... as read; kept by sampling and filtering).                    *)
(***************************************************************************)
EXTENDS Integers, Sequences, FiniteSets, TLC

VARIABLES
    entry,        \* which script runs: "explore" or "app"
    pc,           \* position in the script
    fs,           \* the two input paths: [full |-> file, sample |-> file]
    df,           \* the dataframe being built (NoDf before the read)
    error,        \* the exception that ended the run, "" when none
    warnings,     \* the warnings printed so far
    sample_size,  \* explore.py --sample_size
    out,          \* what explore.py wrote / the viewer rendered
    cache,        \* st.cache_data's entry for load_df
    parses,       \* how often each path was handed to pd.read_csv
    widgets,      \* the viewer's sidebar widget values
    path          \* the path handed to pd.read_csv ("full" or "sample"), "" before

vars == <<entry, pc, fs, path, df, error, warnings, sample_size, out, cache, parses, widgets>>

(***************************************************************************)
(* Characters and text                                                     *)
(***************************************************************************)
LowerLetters == {"a","b","c","d","e","f","g","h","i","j","k","l","m",
                 "n","o","p","q","r","s","t","u","v","w","x","y","z"}
UpperLetters == {"A","B","C","D","E","F","G","H","I","J","K","L","M",
                 "N","O","P","Q","R","S","T","U","V","W","X","Y","Z"}
Digits == {"0","1","2","3","4","5","6","7","8","9"}

\* str.lower() on one character
Lower(c) ==
    CASE c = "A" -> "a" [] c = "B" -> "b" [] c = "C" -> "c" [] c = "D" -> "d"
      [] c = "E" -> "e" [] c = "F" -> "f" [] c = "G" -> "g" [] c = "H" -> "h"
      [] c = "I" -> "i" [] c = "J" -> "j" [] c = "K" -> "k" [] c = "L" -> "l"
      [] c = "M" -> "m" [] c = "N" -> "n" [] c = "O" -> "o" [] c = "P" -> "p"
      [] c = "Q" -> "q" [] c = "R" -> "r" [] c = "S" -> "s" [] c = "T" -> "t"
      [] c = "U" -> "u" [] c = "V" -> "v" [] c = "W" -> "w" [] c = "X" -> "x"
      [] c = "Y" -> "y" [] c = "Z" -> "z" [] OTHER -> c

\* Python's whitespace (str.strip(), str.split(), \s) among the model's characters
IsSpace(c) == c \in {" ", "\t"}

\* [0-9a-zA-Z_], which on ASCII text is also the regex class \w
IsWordChar(c) == c \in LowerLetters \cup UpperLetters \cup Digits \cup {"_"}

LowerText(s) == [i \in 1..Len(s) |-> Lower(s[i])]

RECURSIVE LStrip(_)
LStrip(s) == IF s # <<>> /\ IsSpace(Head(s)) THEN LStrip(Tail(s)) ELSE s

RECURSIVE RStrip(_)
RStrip(s) ==
    IF s # <<>> /\ IsSpace(s[Len(s)]) THEN RStrip(SubSeq(s, 1, Len(s) - 1)) ELSE s

\* str.strip()
Strip(s) == RStrip(LStrip(s))

(***************************************************************************)
(* Cells, files and dataframes                                             *)
(***************************************************************************)
Null == [k |-> "null"]
Str(s) == [k |-> "str", s |-> s]
Num(n) == [k |-> "num", n |-> n]
Date(y, m, d) == [k |-> "date", y |-> y, m |-> m, d |-> d]

IsNull(c) == c.k = "null"

NoFile == [exists |-> FALSE]
File(h, r) == [exists |-> TRUE, header |-> h, rows |-> r]
\* a file of zero bytes has no header line
ZeroByteFile == File(<<>>, <<>>)

NoDf == [columns |-> <<>>, data |-> <<>>, index |-> <<>>, built |-> FALSE]

HasCol(d, name) == \E i \in 1..Len(d.columns) : d.columns[i] = name

ColIdx(d, name) == CHOOSE i \in 1..Len(d.columns) : d.columns[i] = name

\* df[name]
Col(d, name) == [r \in 1..Len(d.data) |-> d.data[r][ColIdx(d, name)]]

\* df[name] = cells : replaces the column, or appends it at the right
SetCol(d, name, cells) ==
    IF HasCol(d, name)
    THEN [d EXCEPT !.data =
            [r \in 1..Len(d.data) |-> [d.data[r] EXCEPT ![ColIdx(d, name)] = cells[r]]]]
    ELSE [d EXCEPT !.columns = Append(d.columns, name),
                   !.data = [r \in 1..Len(d.data) |-> Append(d.data[r], cells[r])]]

\* df[name] = scalar : the scalar in every row
Broadcast(d, c) == [r \in 1..Len(d.data) |-> c]

(***************************************************************************)
(* Column names the scripts look up                                        *)
(***************************************************************************)
TITLE == <<"t","i","t","l","e">>
ABSTRACT == <<"a","b","s","t","r","a","c","t">>
AUTHORS == <<"a","u","t","h","o","r","s">>
JOURNAL == <<"j","o","u","r","n","a","l">>
SOURCE_X == <<"s","o","u","r","c","e","_","x">>
PUBLISH_TIME == <<"p","u","b","l","i","s","h","_","t","i","m","e">>
YEAR == <<"y","e","a","r">>
ABSTRACT_WORD_COUNT ==
    <<"a","b","s","t","r","a","c","t","_","w","o","r","d","_","c","o","u","n","t">>
TITLE_WORD_COUNT == <<"t","i","t","l","e","_","w","o","r","d","_","c","o","u","n","t">>
UNKNOWN == <<"U","n","k","n","o","w","n">>

\* explore.py's list `expected`, restricted to the columns the scripts read
expected == <<SOURCE_X, TITLE, ABSTRACT, PUBLISH_TIME, AUTHORS, JOURNAL>>

\* app.py's list `required`
required == <<TITLE, ABSTRACT, PUBLISH_TIME, AUTHORS, JOURNAL, SOURCE_X>>

(***************************************************************************)
(* Column Normalizer                                                       *)
(***************************************************************************)
\* .str.replace(r"[ \/\-#]", "_", regex=True)
ReplaceSpecial(s) ==
    [i \in 1..Len(s) |-> IF s[i] \in {" ", "/", "-", "#"} THEN "_" ELSE s[i]]

\* .str.replace(r"[^0-9a-zA-Z_]", "", regex=True)
RECURSIVE DeleteNonWord(_)
DeleteNonWord(s) ==
    IF s = <<>> THEN <<>>
    ELSE IF IsWordChar(Head(s)) THEN <<Head(s)>> \o DeleteNonWord(Tail(s))
    ELSE DeleteNonWord(Tail(s))

\* a deletion that spares whitespace, as the idiom [^\w\s] would
RECURSIVE DeleteNonWordNonSpace(_)
DeleteNonWordNonSpace(s) ==
    IF s = <<>> THEN <<>>
    ELSE IF IsWordChar(Head(s)) \/ IsSpace(Head(s))
         THEN <<Head(s)>> \o DeleteNonWordNonSpace(Tail(s))
    ELSE DeleteNonWordNonSpace(Tail(s))

NormalizeNameKeepingSpace(h) == DeleteNonWordNonSpace(LowerText(Strip(h)))

\* one header through explore.py's normalize_columns
NormalizeName(h) == DeleteNonWord(ReplaceSpecial(LowerText(Strip(h))))

\* explore.py normalize_columns(df)
normalize_columns(d) ==
    [d EXCEPT !.columns = [i \in 1..Len(d.columns) |-> NormalizeName(d.columns[i])]]

\* one header through the same chain as written out in app.py load_df
AppNormalizeName(h) == DeleteNonWord(ReplaceSpecial(LowerText(Strip(h))))

AppNormalizeColumns(d) ==
    [d EXCEPT !.columns = [i \in 1..Len(d.columns) |-> AppNormalizeName(d.columns[i])]]

(***************************************************************************)
(* Reading the CSV                                                         *)
(***************************************************************************)
\* the field texts pandas reads as NaN (na_values, and pandas' defaults)
IsNA(t) == t \in {<<>>, <<"N","A">>, <<"N","/","A">>}

ReadCell(t) == IF IsNA(t) THEN Null ELSE Str(t)

\* pd.read_csv on a file that has a header line
read_csv(f) ==
    [columns |-> f.header,
     data |-> [r \in 1..Len(f.rows) |-> [c \in 1..Len(f.header) |-> ReadCell(f.rows[r][c])]],
     index |-> [r \in 1..Len(f.rows) |-> r - 1],
     built |-> TRUE]

(***************************************************************************)
(* Field Deriver                                                           *)
(***************************************************************************)
DigitVal(c) ==
    CASE c = "0" -> 0 [] c = "1" -> 1 [] c = "2" -> 2 [] c = "3" -> 3 [] c = "4" -> 4
      [] c = "5" -> 5 [] c = "6" -> 6 [] c = "7" -> 7 [] c = "8" -> 8 [] c = "9" -> 9

RECURSIVE ToNat(_)
ToNat(s) == IF s = <<>> THEN 0 ELSE 10 * ToNat(SubSeq(s, 1, Len(s) - 1)) + DigitVal(s[Len(s)])

IsLeap(y) == (y % 4 = 0 /\ y % 100 # 0) \/ y % 400 = 0

DaysIn(y, m) ==
    IF m = 2 THEN (IF IsLeap(y) THEN 29 ELSE 28)
    ELSE IF m \in {4, 6, 9, 11} THEN 30 ELSE 31

\* a parse that checks the shape of the text and the ranges 1..12 and 1..31, and
\* never the length of the month
ParseDateNoCalendar(s) ==
    IF /\ Len(s) = 10
       /\ s[5] = "-" /\ s[8] = "-"
       /\ \A i \in {1, 2, 3, 4, 6, 7, 9, 10} : s[i] \in Digits
    THEN LET y == ToNat(SubSeq(s, 1, 4))
             m == ToNat(SubSeq(s, 6, 7))
             d == ToNat(SubSeq(s, 9, 10))
         IN IF m \in 1..12 /\ d \in 1..31 THEN Date(y, m, d) ELSE Null
    ELSE Null

\* pd.to_datetime(..., errors="coerce") on one text, for the ISO form YYYY-MM-DD:
\* a date, or NaT when the text is no such date (1678..2261 are the years a
\* nanosecond Timestamp holds in full)
ParseDate(s) ==
    IF /\ Len(s) = 10
       /\ s[5] = "-" /\ s[8] = "-"
       /\ \A i \in {1, 2, 3, 4, 6, 7, 9, 10} : s[i] \in Digits
    THEN LET y == ToNat(SubSeq(s, 1, 4))
             m == ToNat(SubSeq(s, 6, 7))
             d == ToNat(SubSeq(s, 9, 10))
         IN IF y \in 1678..2261 /\ m \in 1..12 /\ d \in 1..DaysIn(y, m)
            THEN Date(y, m, d) ELSE Null
    ELSE Null

to_datetime(c) == IF c.k = "str" THEN ParseDate(c.s) ELSE IF c.k = "date" THEN c ELSE Null

\* .dt.year
YearOf(c) == IF c.k = "date" THEN Num(c.y) ELSE Null

\* lines 86-90 of explore.py, 41-45 of app.py
DeriveYear(d) ==
    IF HasCol(d, PUBLISH_TIME)
    THEN LET t == [r \in 1..Len(d.data) |-> to_datetime(Col(d, PUBLISH_TIME)[r])]
             d1 == SetCol(d, PUBLISH_TIME, t)
         IN SetCol(d1, YEAR, [r \in 1..Len(d.data) |-> YearOf(t[r])])
    ELSE SetCol(d, YEAR, Broadcast(d, Null))

\* Series.fillna(v)
fillna(cells, v) == [r \in 1..Len(cells) |-> IF IsNull(cells[r]) THEN v ELSE cells[r]]

RECURSIVE NonSpaceRun(_)
NonSpaceRun(s) == IF s = <<>> \/ IsSpace(Head(s)) THEN 0 ELSE 1 + NonSpaceRun(Tail(s))

\* a split on the single space character, as str.split(" ") would do
RECURSIVE SplitOnSpace(_)
SplitOnSpace(s) ==
    IF \A i \in 1..Len(s) : s[i] # " " THEN <<s>>
    ELSE LET n == CHOOSE i \in 1..Len(s) : s[i] = " " /\ \A j \in 1..(i - 1) : s[j] # " "
         IN <<SubSeq(s, 1, n - 1)>> \o SplitOnSpace(SubSeq(s, n + 1, Len(s)))

\* str.split(): the maximal runs of non-whitespace characters
RECURSIVE Split(_)
Split(s) ==
    LET t == LStrip(s)
    IN IF t = <<>> THEN <<>>
       ELSE <<SubSeq(t, 1, NonSpaceRun(t))>> \o Split(SubSeq(t, NonSpaceRun(t) + 1, Len(t)))

\* .str.split().str.len() on one cell: NaN for a cell that is no text
WordCount(c) == IF c.k = "str" THEN Num(Len(Split(c.s))) ELSE Null

\* explore.py: `if c in df.columns: df[c] = df[c].fillna("") else: df[c] = ""`
FillOrSynthesize(d, c) ==
    IF HasCol(d, c) THEN SetCol(d, c, fillna(Col(d, c), Str(<<>>)))
    ELSE SetCol(d, c, Broadcast(d, Str(<<>>)))

\* explore.py lines 92-105
ExploreFill(d) ==
    LET d1 == FillOrSynthesize(d, ABSTRACT)
        d2 == FillOrSynthesize(d1, TITLE)
        d3 == SetCol(d2, ABSTRACT_WORD_COUNT,
                     [r \in 1..Len(d2.data) |-> WordCount(Col(d2, ABSTRACT)[r])])
    IN SetCol(d3, TITLE_WORD_COUNT,
              [r \in 1..Len(d3.data) |-> WordCount(Col(d3, TITLE)[r])])

\* app.py lines 46-50: df.get(c, "") is the str "" when the column is absent, and
\* "".fillna raises AttributeError
AppFillRaises(d) == \E i \in 1..Len(required) :
    required[i] # PUBLISH_TIME /\ ~HasCol(d, required[i])

RECURSIVE AppFillCols(_, _)
AppFillCols(d, cs) ==
    IF cs = <<>> THEN d
    ELSE AppFillCols(SetCol(d, Head(cs), fillna(Col(d, Head(cs)), Str(<<>>))), Tail(cs))

\* app.py lines 46-51, when no line raises
AppFill(d) ==
    LET d1 == AppFillCols(d, <<TITLE, ABSTRACT, AUTHORS, JOURNAL, SOURCE_X>>)
    IN SetCol(d1, ABSTRACT_WORD_COUNT,
              [r \in 1..Len(d1.data) |-> WordCount(Col(d1, ABSTRACT)[r])])

(***************************************************************************)
(* State shared by the two scripts                                         *)
(***************************************************************************)
NoTable == [made |-> FALSE, rows |-> <<>>]
Table(rows) == [made |-> TRUE, rows |-> rows]

NoOut == [cleaned |-> NoDf, sample |-> NoDf, year_counts |-> NoTable,
          top_journals |-> NoTable, top_sources |-> NoTable, top_words |-> NoTable,
          filtered |-> NoDf]

NoCache == [set |-> FALSE, path |-> "", df |-> NoDf]

NoWidgets == [touched |-> FALSE]

Raise(e) ==
    /\ error' = e
    /\ pc' = "raised"
    /\ df' = NoDf

(***************************************************************************)
(* explore.py main, lines 51-110                                           *)
(***************************************************************************)
\* lines 52-83: read the CSV, normalise the headers, warn when no expected column
ExploreLoad ==
    /\ entry = "explore" /\ pc = "start"
    /\ path' = "full"
    /\ IF ~fs.full.exists
       THEN Raise("FileNotFoundError") /\ UNCHANGED <<parses, warnings>>
       ELSE /\ parses' = [parses EXCEPT !.full = @ + 1]
            /\ IF fs.full.header = <<>>
               THEN Raise("EmptyDataError") /\ UNCHANGED warnings
               ELSE LET d == normalize_columns(read_csv(fs.full))
                    IN /\ df' = d
                       /\ warnings' =
                            IF \A i \in 1..Len(expected) : ~HasCol(d, expected[i])
                            THEN warnings \cup {"none of the expected columns found"}
                            ELSE warnings
                       /\ pc' = "year"
                       /\ UNCHANGED error
    /\ UNCHANGED <<entry, fs, sample_size, out, cache, widgets>>

\* lines 85-90
ExploreDeriveYear ==
    /\ entry = "explore" /\ pc = "year"
    /\ df' = DeriveYear(df)
    /\ pc' = "fill"
    /\ UNCHANGED <<entry, fs, path, error, warnings, sample_size, out, cache, parses, widgets>>

\* lines 92-110: fill the text fields, count words, write metadata_cleaned.csv
ExploreFillText ==
    /\ entry = "explore" /\ pc = "fill"
    /\ df' = ExploreFill(df)
    /\ out' = [out EXCEPT !.cleaned = ExploreFill(df)]
    /\ pc' = "sample"
    /\ UNCHANGED <<entry, fs, path, error, warnings, sample_size, cache, parses, widgets>>

(***************************************************************************)
(* app.py load_df, lines 25-54                                             *)
(***************************************************************************)
\* load_df without the decorator: every call runs the body
AppStartUncached ==
    /\ entry = "app" /\ pc = "start"
    /\ df' = NoDf /\ pc' = "read"
    /\ UNCHANGED <<entry, fs, path, error, warnings, sample_size, out, cache, parses, widgets>>

\* line 54, under @st.cache_data: a cached result is returned without running the body
AppStart ==
    /\ entry = "app" /\ pc = "start"
    /\ IF cache.set
       THEN df' = cache.df /\ pc' = "widgets"
       ELSE df' = NoDf /\ pc' = "read"
    /\ UNCHANGED <<entry, fs, path, error, warnings, sample_size, out, cache, parses, widgets>>

\* lines 28-39: choose the path, stop when it is missing, read, normalise the headers
AppRead ==
    /\ entry = "app" /\ pc = "read"
    /\ LET p == IF fs.sample.exists THEN "sample" ELSE "full"
       IN /\ path' = p
          /\ IF ~fs[p].exists
             THEN /\ error' = "st.stop"
                  /\ pc' = "stopped"
                  /\ warnings' = warnings \cup {"No metadata found"}
                  /\ UNCHANGED <<df, parses>>
             ELSE /\ parses' = [parses EXCEPT ![p] = @ + 1]
                  /\ UNCHANGED warnings
                  /\ IF fs[p].header = <<>>
                     THEN Raise("EmptyDataError")
                     ELSE /\ df' = AppNormalizeColumns(read_csv(fs[p]))
                          /\ pc' = "app_year"
                          /\ UNCHANGED error
    /\ UNCHANGED <<entry, fs, sample_size, out, cache, widgets>>

\* lines 41-45
AppDeriveYear ==
    /\ entry = "app" /\ pc = "app_year"
    /\ df' = DeriveYear(df)
    /\ pc' = "app_fill"
    /\ UNCHANGED <<entry, fs, path, error, warnings, sample_size, out, cache, parses, widgets>>

\* lines 46-52: fill the five text columns, count the abstract's words, return; the
\* returned dataframe is what st.cache_data keeps, an exception is not cached
AppFillText ==
    /\ entry = "app" /\ pc = "app_fill"
    /\ IF AppFillRaises(df)
       THEN Raise("AttributeError") /\ UNCHANGED cache
       ELSE /\ df' = AppFill(df)
            /\ cache' = [set |-> TRUE, path |-> path, df |-> AppFill(df)]
            /\ pc' = "widgets"
            /\ UNCHANGED error
    /\ UNCHANGED <<entry, fs, path, warnings, sample_size, out, parses, widgets>>

NextDerive ==
    \/ ExploreLoad
    \/ ExploreDeriveYear
    \/ ExploreFillText
    \/ AppStart
    \/ AppRead
    \/ AppDeriveYear
    \/ AppFillText

(***************************************************************************)
(* Sampler (explore.py lines 112-118)                                      *)
(***************************************************************************)
Min(a, b) == IF a < b THEN a ELSE b

\* draws with replacement: any n row positions
DrawsWithReplacement(n, len) == [1..n -> 1..len]

\* df.sample(n=n, random_state=42) draws n distinct row positions; which ones the
\* seeded generator picks is left open
Draws(n, len) == {q \in [1..n -> 1..len] : \A i, j \in 1..n : q[i] = q[j] => i = j}

\* the rows of d at the drawn positions, with their labels
TakeRows(d, q) ==
    [d EXCEPT !.data = [i \in 1..Len(q) |-> d.data[q[i]]],
              !.index = [i \in 1..Len(q) |-> d.index[q[i]]]]

(***************************************************************************)
(* Aggregator                                                              *)
(***************************************************************************)
Range(q) == {q[i] : i \in 1..Len(q)}

\* the distinct elements of q, in the order they first occur (computed by halves)
RECURSIVE Distinct(_)
Distinct(q) ==
    IF Len(q) <= 1 THEN q
    ELSE LET h == Len(q) \div 2
             a == Distinct(SubSeq(q, 1, h))
             NotSeen(x) == x \notin Range(a)
         IN a \o SelectSeq(Distinct(SubSeq(q, h + 1, Len(q))), NotSeen)

Occurrences(q, v) == Cardinality({i \in 1..Len(q) : q[i] = v})

\* collections.Counter(q): one entry for each distinct element, in first-seen order
Counter(q) ==
    LET d == Distinct(q)
    IN [i \in 1..Len(d) |-> [key |-> d[i], count |-> Occurrences(q, d[i])]]

RECURSIVE ByCountFrom(_, _)
ByCountFrom(t, c) ==
    IF c = 0 THEN <<>>
    ELSE LET Has(e) == e.count = c
         IN SelectSeq(t, Has) \o ByCountFrom(t, c - 1)

\* a stable sort by descending count: equal counts keep their first-seen order
SortByCountDesc(t) ==
    LET top == IF t = <<>> THEN 0
               ELSE CHOOSE c \in {t[i].count : i \in 1..Len(t)} :
                        \A i \in 1..Len(t) : t[i].count <= c
    IN ByCountFrom(t, top)

\* Series.value_counts()
value_counts(cells) == SortByCountDesc(Counter(cells))

\* Counter.most_common(n) and Series.head(n): the first n entries
head(t, n) == SubSeq(t, 1, Min(n, Len(t)))

\* explore.py line 141 and 157: .head(15)
TopN == 15

\* dropna().astype(int).value_counts().sort_index(): counts by ascending year
RECURSIVE ByKeyFrom(_, _, _)
ByKeyFrom(t, lo, hi) ==
    IF lo > hi THEN <<>>
    ELSE LET Has(e) == e.key = Num(lo)
         IN SelectSeq(t, Has) \o ByKeyFrom(t, lo + 1, hi)

year_counts(cells) ==
    LET NotNull(c) == ~IsNull(c)
        t == Counter(SelectSeq(cells, NotNull))
        ys == {t[i].key.n : i \in 1..Len(t)}
    IN IF t = <<>> THEN <<>>
       ELSE ByKeyFrom(t, CHOOSE y \in ys : \A z \in ys : y <= z,
                         CHOOSE y \in ys : \A z \in ys : z <= y)

(***************************************************************************)
(* Title words (explore.py lines 172-230)                                  *)
(***************************************************************************)
\* " ".join(titles), computed by halves
RECURSIVE JoinTexts(_)
JoinTexts(ts) ==
    IF ts = <<>> THEN <<>>
    ELSE IF Len(ts) = 1 THEN ts[1]
    ELSE LET h == Len(ts) \div 2
         IN JoinTexts(SubSeq(ts, 1, h)) \o <<" ">> \o JoinTexts(SubSeq(ts, h + 1, Len(ts)))

\* the last place of the run of word characters that starts at p
WordEnd(s, p) ==
    CHOOSE q \in p..Len(s) :
        /\ \A r \in p..q : IsWordChar(s[r])
        /\ q = Len(s) \/ ~IsWordChar(s[q + 1])

\* the maximal runs of word characters that start at the places lo..hi, by halves
RECURSIVE WordsFrom(_, _, _)
WordsFrom(s, lo, hi) ==
    IF lo > hi THEN <<>>
    ELSE IF lo = hi
    THEN (IF IsWordChar(s[lo]) /\ (lo = 1 \/ ~IsWordChar(s[lo - 1]))
          THEN <<SubSeq(s, lo, WordEnd(s, lo))>> ELSE <<>>)
    ELSE WordsFrom(s, lo, (lo + hi) \div 2) \o WordsFrom(s, ((lo + hi) \div 2) + 1, hi)

\* re.findall(r"\b\w+\b", text): the maximal runs of word characters, left to right
FindWords(s) == WordsFrom(s, 1, Len(s))

\* explore.py lines 184-223
stopwords ==
    {<<"t","h","e">>, <<"a","n","d">>, <<"o","f">>, <<"i","n">>, <<"t","o">>, <<"a">>,
     <<"f","o","r">>, <<"o","n">>, <<"w","i","t","h">>, <<"b","y">>, <<"a","n">>, <<"i","s">>,
     <<"f","r","o","m">>, <<"t","h","a","t">>, <<"a","r","e">>, <<"a","s">>, <<"a","t">>,
     <<"b","e">>, <<"t","h","i","s">>, <<"w","e">>, <<"o","u","r">>, <<"o","r">>,
     <<"u","s","i","n","g">>, <<"u","s","e">>, <<"s","t","u","d","y">>,
     <<"s","t","u","d","i","e","s">>, <<"p","a","p","e","r">>,
     <<"r","e","s","e","a","r","c","h">>, <<"c","o","v","i","d">>,
     <<"c","o","v","i","d","1","9">>, <<"c","o","r","o","n","a","v","i","r","u","s">>,
     <<"s","a","r","s">>, <<"s","a","r","s","c","o","v","2">>, <<"2","0","1","9">>,
     <<"2","0","1","9","n","c","o","v">>, <<"n","o","v","e","l">>}

\* a filter on the stopwords alone, without the length test
KeepWordAnyLength(w) == w \notin stopwords

\* line 224: w not in stopwords and len(w) > 2
KeepWord(w) == w \notin stopwords /\ Len(w) > 2

\* line 226: most_common(200)
TopWords == 200

\* lines 172, 182-226 on the title column
top_title_words(titles) ==
    LET text == LowerText(JoinTexts([i \in 1..Len(titles) |-> titles[i].s]))
        words == FindWords(text)
        filtered == SelectSeq(words, KeepWord)
    IN head(SortByCountDesc(Counter(filtered)), TopWords)

(***************************************************************************)
(* explore.py main, lines 112-243                                          *)
(***************************************************************************)
\* lines 112-118: nothing is written for a sample size of 0 (or below)
ExploreSample ==
    /\ entry = "explore" /\ pc = "sample"
    /\ IF sample_size > 0
       THEN \E q \in Draws(Min(sample_size, Len(df.data)), Len(df.data)) :
                out' = [out EXCEPT !.sample = TakeRows(df, q)]
       ELSE UNCHANGED out
    /\ pc' = "aggregate"
    /\ UNCHANGED <<entry, fs, path, df, error, warnings, sample_size, cache, parses, widgets>>

NotNullCell(c) == ~IsNull(c)

\* lines 123-169: the year, journal and source tables behind the three charts
ExploreAggregate ==
    /\ entry = "explore" /\ pc = "aggregate"
    /\ out' = [out EXCEPT
         !.year_counts =
            IF SelectSeq(Col(df, YEAR), NotNullCell) # <<>>
            THEN Table(year_counts(Col(df, YEAR))) ELSE NoTable,
         !.top_journals =
            IF HasCol(df, JOURNAL)
            THEN Table(head(value_counts(fillna(Col(df, JOURNAL), Str(UNKNOWN))), TopN))
            ELSE NoTable,
         !.top_sources =
            IF HasCol(df, SOURCE_X)
            THEN Table(head(value_counts(fillna(Col(df, SOURCE_X), Str(UNKNOWN))), TopN))
            ELSE NoTable]
    /\ pc' = "words"
    /\ UNCHANGED <<entry, fs, path, df, error, warnings, sample_size, cache, parses, widgets>>

\* lines 171-243: top_title_words.csv, then the summary
ExploreTopWords ==
    /\ entry = "explore" /\ pc = "words"
    /\ out' = [out EXCEPT !.top_words = Table(top_title_words(Col(df, TITLE)))]
    /\ pc' = "done"
    /\ UNCHANGED <<entry, fs, path, df, error, warnings, sample_size, cache, parses, widgets>>

NextExplore ==
    \/ ExploreLoad
    \/ ExploreDeriveYear
    \/ ExploreFillText
    \/ ExploreSample
    \/ ExploreAggregate
    \/ ExploreTopWords

(***************************************************************************)
(* app.py, the script after load_df (lines 56-141)                         *)
(***************************************************************************)
ALL == <<"A","l","l">>

HasYears(d) == \E r \in 1..Len(d.data) : ~IsNull(Col(d, YEAR)[r])

YearsOf(d) == {Col(d, YEAR)[r].n : r \in {x \in 1..Len(d.data) : ~IsNull(Col(d, YEAR)[x])}}

\* lines 64-65
min_year(d) ==
    IF HasYears(d) THEN CHOOSE y \in YearsOf(d) : \A z \in YearsOf(d) : y <= z ELSE 2018
max_year(d) ==
    IF HasYears(d) THEN CHOOSE y \in YearsOf(d) : \A z \in YearsOf(d) : z <= y ELSE 2023

\* line 79: the options of the source selector (their order is not modelled)
sources(d) ==
    {ALL} \cup (IF HasCol(d, SOURCE_X)
                THEN {fillna(Col(d, SOURCE_X), Str(UNKNOWN))[r].s : r \in 1..Len(d.data)}
                ELSE {})

\* the widget values of a first run: the whole year range, "All", no query, 10
DefaultWidgets(d) ==
    [touched |-> FALSE, year_range |-> <<min_year(d), max_year(d)>>,
     selected_source |-> ALL, title_query |-> <<>>, top_n |-> 10]

\* filtered[mask]: the rows of d, in order, at the positions where the mask is true
KeepRows(d, mask) ==
    LET On(r) == mask[r]
    IN TakeRows(d, SelectSeq([r \in 1..Len(d.data) |-> r], On))

\* the patterns of the model's alphabet that re.compile rejects: an unclosed "("
RegexValid(pat) == \A k \in 1..Len(pat) : pat[k] # "("

\* the query taken as literal text, found case-insensitively
ContainsLiteral(text, pat) ==
    \E p \in 1..(Len(text) - Len(pat) + 1) :
        \A k \in 1..Len(pat) : Lower(pat[k]) = Lower(text[p + k - 1])

\* Series.str.contains(pat, case=False, na=False) on one title: pat is a regular
\* expression (regex=True is the default), searched ignoring case; of the pattern
\* syntax the model has "." (any character) and literal characters
Contains(text, pat) ==
    \E p \in 1..(Len(text) - Len(pat) + 1) :
        \A k \in 1..Len(pat) : pat[k] = "." \/ Lower(pat[k]) = Lower(text[p + k - 1])

\* lines 85-91
ApplyFilters(d, w) ==
    LET InYears(r) ==
            /\ ~IsNull(Col(d, YEAR)[r])
            /\ Col(d, YEAR)[r].n >= w.year_range[1]
            /\ Col(d, YEAR)[r].n <= w.year_range[2]
        f1 == IF HasYears(d) THEN KeepRows(d, [r \in 1..Len(d.data) |-> InYears(r)]) ELSE d
        FromSource(r) == fillna(Col(f1, SOURCE_X), Str(UNKNOWN))[r] = Str(w.selected_source)
        f2 == IF w.selected_source # ALL THEN KeepRows(f1, [r \in 1..Len(f1.data) |-> FromSource(r)]) ELSE f1
        TitleHas(r) == Col(f2, TITLE)[r].k = "str" /\ Contains(Col(f2, TITLE)[r].s, w.title_query)
    IN IF Strip(w.title_query) # <<>> THEN KeepRows(f2, [r \in 1..Len(f2.data) |-> TitleHas(r)]) ELSE f2

\* lines 56-82: the missing-column warning and the sidebar; a widget keeps the value
\* the user gave it, the year range is fixed when the data has a single year
AppSidebar ==
    /\ entry = "app" /\ pc = "widgets"
    /\ warnings' =
         IF \E i \in 1..Len(required) : ~HasCol(df, required[i])
         THEN warnings \cup {"missing some expected columns"} ELSE warnings
    /\ widgets' =
         IF ~widgets.touched THEN DefaultWidgets(df)
         ELSE IF min_year(df) = max_year(df)
         THEN [widgets EXCEPT !.year_range = <<min_year(df), max_year(df)>>]
         ELSE widgets
    /\ pc' = "filter"
    /\ UNCHANGED <<entry, fs, path, df, error, sample_size, out, cache, parses>>

\* lines 84-93; an invalid pattern makes str.contains raise re.error
AppFilter ==
    /\ entry = "app" /\ pc = "filter"
    /\ IF Strip(widgets.title_query) # <<>> /\ ~RegexValid(widgets.title_query)
       THEN Raise("re.error") /\ UNCHANGED out
       ELSE /\ out' = [out EXCEPT !.filtered = ApplyFilters(df, widgets)]
            /\ pc' = "charts"
            /\ UNCHANGED <<df, error>>
    /\ UNCHANGED <<entry, fs, path, warnings, sample_size, cache, parses, widgets>>

\* lines 95-141: the year chart and the top-N journal chart of the filtered rows
AppCharts ==
    /\ entry = "app" /\ pc = "charts"
    /\ out' = [out EXCEPT
         !.year_counts =
            IF HasYears(out.filtered)
            THEN Table(year_counts(Col(out.filtered, YEAR))) ELSE NoTable,
         !.top_journals =
            IF HasCol(out.filtered, JOURNAL)
            THEN Table(head(value_counts(fillna(Col(out.filtered, JOURNAL), Str(UNKNOWN))),
                            widgets.top_n))
            ELSE NoTable]
    /\ pc' = "idle"
    /\ UNCHANGED <<entry, fs, path, df, error, warnings, sample_size, cache, parses, widgets>>

\* the texts a user types into "Title contains"
Queries ==
    {<<>>, <<" ">>, <<"a">>, <<"B">>, <<".">>, <<"(">>, <<"a"," ","b">>, <<" ","d">>, <<"x",".">>}

\* the script ran far enough to show the sidebar, and has ended
WidgetsShown == pc = "idle" \/ (pc = "raised" /\ error = "re.error")

\* the user changes the year range, the source or the title query: the script
\* reruns from the top, with nothing of the last run but the cache and the widgets
ChangeFilters ==
    /\ entry = "app" /\ WidgetsShown
    /\ \E lo \in min_year(cache.df)..max_year(cache.df), hi \in min_year(cache.df)..max_year(cache.df),
          src \in sources(cache.df), q \in Queries :
          /\ lo <= hi
          /\ widgets' = [widgets EXCEPT !.touched = TRUE, !.year_range = <<lo, hi>>,
                                        !.selected_source = src, !.title_query = q]
    /\ pc' = "start"
    /\ error' = ""
    /\ UNCHANGED <<entry, fs, path, warnings, sample_size, cache, parses>>
    /\ df' = NoDf
    /\ out' = NoOut

\* the user moves the "Top N journals" slider (5 to 30): the script reruns
ChangeTopN ==
    /\ entry = "app" /\ WidgetsShown
    /\ \E n \in 5..30 : widgets' = [widgets EXCEPT !.touched = TRUE, !.top_n = n]
    /\ pc' = "start"
    /\ error' = ""
    /\ UNCHANGED <<entry, fs, path, warnings, sample_size, cache, parses>>
    /\ df' = NoDf
    /\ out' = NoOut

\* how many reads of a file a behaviour holds
MaxParses == 3

\* the page is reloaded, whatever the last run ended in
Rerun ==
    /\ entry = "app" /\ pc \in {"idle", "raised", "stopped"}
    /\ parses.full + parses.sample < MaxParses
    /\ pc' = "start"
    /\ error' = ""
    /\ UNCHANGED <<entry, fs, path, warnings, sample_size, cache, parses, widgets>>
    /\ df' = NoDf
    /\ out' = NoOut


(***************************************************************************)
(* Inputs of the field-derivation runs                                     *)
(***************************************************************************)
\* raw headers as they stand in a CSV, one for each column the scripts read
RawHeaders ==
    <<<<"T","i","t","l","e">>,
      <<" ","A","b","s","t","r","a","c","t">>,
      <<"P","u","b","l","i","s","h"," ","T","i","m","e">>,
      <<"a","u","t","h","o","r","s">>,
      <<"J","o","u","r","n","a","l","!">>,
      <<"S","o","u","r","c","e","-","X">>>>

D_2020_03_15 == <<"2","0","2","0","-","0","3","-","1","5">>
D_2019_02_29 == <<"2","0","1","9","-","0","2","-","2","9">>
D_2020_13_01 == <<"2","0","2","0","-","1","3","-","0","1">>
D_2019_12_31 == <<"2","0","1","9","-","1","2","-","3","1">>
D_garbage == <<"s","o","o","n">>

\* rows of field texts, in the order of RawHeaders
ROW_FULL ==
    << <<"A"," ","b">>, <<" ","x"," "," ","y","\t">>, D_2020_03_15,
       <<"L","i">>, <<"B","M","J">>, <<"P","M","C">> >>
ROW_EMPTY == << <<>>, <<>>, <<>>, <<>>, <<>>, <<>> >>
ROW_BAD_DATE == << <<"N","A">>, <<"z">>, D_2019_02_29, <<>>, <<"B","M","J">>, <<>> >>
ROW_NO_DATE ==
    << <<"c","\t","d"," ">>, <<>>, D_garbage, <<"W","u">>, <<>>, <<"W","H","O">> >>
ROW_2019 ==
    << <<"e">>, <<"x","\t","y"," ","z">>, D_2019_12_31,
       <<"L","i">>, <<"J","V">>, <<"P","M","C">> >>

RowCatalogue == {ROW_FULL, ROW_EMPTY, ROW_BAD_DATE, ROW_NO_DATE, ROW_2019}

MaxRows == 2

RECURSIVE SeqsUpTo(_, _)
SeqsUpTo(S, n) ==
    IF n = 0 THEN {<<>>}
    ELSE LET shorter == SeqsUpTo(S, n - 1)
         IN shorter \cup {Append(q, x) : q \in {t \in shorter : Len(t) = n - 1}, x \in S}

\* the subsequence of q at the positions in keep
RECURSIVE Project(_, _, _)
Project(q, keep, i) ==
    IF i > Len(q) THEN <<>>
    ELSE (IF i \in keep THEN <<q[i]>> ELSE <<>>) \o Project(q, keep, i + 1)

\* a CSV with the columns in keep and the given catalogue rows
FileOf(keep, rows) ==
    File(Project(RawHeaders, keep, 1), [r \in 1..Len(rows) |-> Project(rows[r], keep, 1)])

DeriveFiles ==
    {NoFile, ZeroByteFile}
    \cup {FileOf(keep, rows) : keep \in SUBSET (1..Len(RawHeaders)),
                               rows \in SeqsUpTo(RowCatalogue, MaxRows)}

InitCommon ==
    /\ pc = "start"
    /\ path = ""
    /\ df = NoDf
    /\ error = ""
    /\ warnings = {}
    /\ out = NoOut
    /\ cache = NoCache
    /\ parses = [full |-> 0, sample |-> 0]
    /\ widgets = NoWidgets

InitDerive ==
    /\ InitCommon
    /\ entry \in {"explore", "app"}
    /\ fs \in {[full |-> f, sample |-> NoFile] : f \in DeriveFiles}
    /\ sample_size = 0

Spec == InitDerive /\ [][NextDerive]_vars

(***************************************************************************)
(* Properties of the field derivation (specification Spec)                 *)
(***************************************************************************)
\* the file the run read
InputFile == fs[path]

\* whether the input carries the i-th column of RawHeaders, and its text in row r
InputHas(i) == \E j \in 1..Len(InputFile.header) : InputFile.header[j] = RawHeaders[i]
InputText(i, r) ==
    InputFile.rows[r][CHOOSE j \in 1..Len(InputFile.header) : InputFile.header[j] = RawHeaders[i]]

ExploreDerived == entry = "explore" /\ pc = "sample"
AppLoaded == entry = "app" /\ pc = "widgets"

FilledIn(d, c) == HasCol(d, c) /\ \A r \in 1..Len(d.data) : Col(d, c)[r].k = "str"

\* C2: once the field-derivation step of either entry point has run (explore.py past
\* line 105, load_df past line 50, whether it returned or raised), abstract, title,
\* authors, journal and source_x all exist and hold no null in any row.
C2_TextColumnsFilled ==
    (ExploreDerived \/ AppLoaded \/ (entry = "app" /\ error = "AttributeError"))
        => \A c \in {ABSTRACT, TITLE, AUTHORS, JOURNAL, SOURCE_X} : FilledIn(df, c)

\* the year the claim gives each publish_time text of the catalogue: the calendar
\* year of a text that is a date, null for an empty text or one that is no date
C3_ExpectedYear(t) ==
    CASE t = D_2020_03_15 -> Num(2020)
      [] t = D_2019_12_31 -> Num(2019)
      [] OTHER -> Null

C3_YearDerived == pc \in {"fill", "app_fill"}

\* C3: after the year derivation of either entry point, no exception was raised, the
\* year column exists (also when the input has no publish_time column), and each
\* row's year is null when publish_time is absent, empty or no date, and the calendar
\* year of the date otherwise ("2020-03-15" gives 2020).
C3_YearIsCalendarYear ==
    C3_YearDerived =>
        /\ error = ""
        /\ HasCol(df, YEAR)
        /\ Len(df.data) = Len(InputFile.rows)
        /\ \A r \in 1..Len(df.data) :
             Col(df, YEAR)[r] = IF InputHas(3) THEN C3_ExpectedYear(InputText(3, r)) ELSE Null

\* both cases in one table: a dated row and a row whose text is no calendar date
C3_Witness ==
    /\ C3_YearDerived
    /\ InputHas(3)
    /\ \E r \in 1..Len(df.data) : InputText(3, r) = D_2020_03_15 /\ Col(df, YEAR)[r] = Num(2020)
    /\ \E r \in 1..Len(df.data) : InputText(3, r) = D_2019_02_29 /\ IsNull(Col(df, YEAR)[r])

\* the number of whitespace-delimited tokens of a text: its characters that are no
\* whitespace and stand first or right after whitespace
C4_TokenCount(s) ==
    Cardinality({i \in 1..Len(s) : ~IsSpace(s[i]) /\ (i = 1 \/ IsSpace(s[i - 1]))})

C4_CountsMatch(d, counts, text) ==
    /\ HasCol(d, counts)
    /\ FilledIn(d, text)
    /\ \A r \in 1..Len(d.data) :
         /\ Col(d, counts)[r].k = "num"
         /\ Col(d, counts)[r].n >= 0
         /\ Col(d, counts)[r].n = C4_TokenCount(Col(d, text)[r].s)

C8_ExistingInputNeverFatal ==
    (path # "" /\ InputFile.exists /\ InputFile.header # <<>>) =>
        /\ error = ""
        /\ ExploreDerived =>
             HasCol(df, YEAR) /\ HasCol(df, ABSTRACT_WORD_COUNT) /\ HasCol(df, TITLE_WORD_COUNT)
        /\ AppLoaded => HasCol(df, YEAR) /\ HasCol(df, ABSTRACT_WORD_COUNT)

(***************************************************************************)
(* The environment of the viewer, and the next-state relations             *)
(***************************************************************************)
\* outputs/sample_metadata.csv appears between two runs of the script (explore.py
\* was run with a positive --sample_size)
WriteSample ==
    /\ entry = "app" /\ pc \in {"idle", "raised", "stopped"}
    /\ ~fs.sample.exists
    /\ fs' = [fs EXCEPT !.sample = File(RawHeaders, <<ROW_NO_DATE>>)]
    /\ UNCHANGED <<entry, pc, path, df, error, warnings, sample_size, out, cache, parses, widgets>>

\* one run of the script, top to bottom
NextAppRun ==
    \/ AppStart
    \/ AppRead
    \/ AppDeriveYear
    \/ AppFillText
    \/ AppSidebar
    \/ AppFilter
    \/ AppCharts

NextApp == NextAppRun \/ ChangeFilters

NextAgg == NextExplore \/ NextAppRun \/ ChangeTopN

NextViewer == NextApp \/ Rerun \/ WriteSample

Next == NextExplore \/ NextApp \/ ChangeTopN \/ Rerun \/ WriteSample

(***************************************************************************)
(* Inputs of the header-normalisation runs                                 *)
(***************************************************************************)
\* a letter of each case, a digit, the four characters replaced by "_", the
\* underscore, a whitespace character that is no space, and a character that is deleted
HeaderChars == {"a", "T", "1", " ", "/", "-", "#", "_", "\t", "."}

MaxHeaderLen == 3

\* a CSV with one column and no rows, for every header text up to MaxHeaderLen
InitNorm ==
    /\ InitCommon
    /\ entry \in {"explore", "app"}
    /\ fs \in {[full |-> File(<<h>>, <<>>), sample |-> NoFile] :
                  h \in SeqsUpTo(HeaderChars, MaxHeaderLen) \ {<<>>}}
    /\ sample_size = 0

SpecNorm == InitNorm /\ [][NextDerive]_vars

(***************************************************************************)
(* Inputs of the sampling runs                                             *)
(***************************************************************************)
MaxSampleRows == 3
MaxSampleSize == 4

InitSample ==
    /\ InitCommon
    /\ entry = "explore"
    /\ fs \in {[full |-> FileOf(1..Len(RawHeaders), rows), sample |-> NoFile] :
                  rows \in SeqsUpTo({ROW_FULL, ROW_EMPTY}, MaxSampleRows)}
    /\ sample_size \in (0 - 1)..MaxSampleSize

SpecSample == InitSample /\ [][NextExplore]_vars

(***************************************************************************)
(* Inputs of the title-word runs                                           *)
(***************************************************************************)
Letters == <<"a","b","c","d","e","f","g","h","i","j","k","l","m",
             "n","o","p","q","r","s","t","u","v","w","x","y","z">>

\* the i-th of a family of distinct three-letter words: aab, aac, ...
WordNo(i) ==
    <<Letters[((i \div 676) % 26) + 1], Letters[((i \div 26) % 26) + 1], Letters[(i % 26) + 1]>>

TITLE_EXAMPLE ==
    <<"C","O","V","I","D","-","1","9"," ","v","a","c","c","i","n","e"," ",
      "t","r","i","a","l"," ","r","e","s","u","l","t","s">>
TITLE_REPEATS ==
    <<"T","h","e"," ","T","r","i","a","l"," ","o","f"," ","t","r","i","a","l","s",":",
      "t","R","I","A","L">>
TITLE_SHORT == <<"a","n"," ","X","-","r","a","y",","," ","a","a","b">>

TitleCatalogue == {TITLE_EXAMPLE, TITLE_REPEATS, TITLE_SHORT, <<>>}

\* the sizes of the block of one-word titles: none or few, and around TopWords
SmallBlock == 1
OverTop == 1
MaxExtraTitles == 1

BlockSizes == (0..SmallBlock) \cup ((TopWords - 1)..(TopWords + OverTop))

\* a CSV with the one column Title: n one-word titles, then the extra titles
TitleFile(n, extra) ==
    File(<<RawHeaders[1]>>,
         [r \in 1..(n + Len(extra)) |-> IF r <= n THEN <<WordNo(r)>> ELSE <<extra[r - n]>>])

InitWords ==
    /\ InitCommon
    /\ entry = "explore"
    /\ fs \in {[full |-> TitleFile(n, extra), sample |-> NoFile] :
                  n \in BlockSizes, extra \in SeqsUpTo(TitleCatalogue, MaxExtraTitles)}
    /\ sample_size = 0

SpecWords == InitWords /\ [][NextExplore]_vars

(***************************************************************************)
(* Properties of the normalizer, the sampler and the title words           *)
(***************************************************************************)
\* C1: every column name the load step of either entry point leaves in the dataframe
\* is a fixed point of that entry point's normalisation (normalising twice equals
\* normalising once), and consists of lowercase letters, digits and underscores only.
C1_NormalizationIdempotent ==
    df.built =>
        \A i \in 1..Len(df.columns) :
            /\ entry = "explore" => NormalizeName(df.columns[i]) = df.columns[i]
            /\ entry = "app" => AppNormalizeName(df.columns[i]) = df.columns[i]
            /\ \A k \in 1..Len(df.columns[i]) :
                 df.columns[i][k] \in LowerLetters \cup Digits \cup {"_"}

\* a header that every step of the chain changes
C1_Witness ==
    /\ pc \in {"year", "app_year"}
    /\ fs.full.header = << <<" ", "T", "/">> >>
    /\ df.columns = << <<"t", "_">> >>

C5_Sampled == entry = "explore" /\ pc \in {"aggregate", "words", "done"}

\* C5: once the sampler has run, a sample size of 0 has written no sample, and a
\* positive sample size n has written exactly min(n, total_rows) rows of the cleaned
\* table, each a row of that table and no row twice; when n >= total_rows every row
\* of the cleaned table is in the sample exactly once.
C5_SampleIsMinWithoutRepetition ==
    C5_Sampled =>
        LET cl == out.cleaned
            smp == out.sample
            total == Len(cl.data)
        IN /\ sample_size = 0 => ~smp.built
           /\ sample_size > 0 =>
                /\ smp.built
                /\ smp.columns = cl.columns
                /\ Len(smp.data) = (IF sample_size < total THEN sample_size ELSE total)
                /\ \A i, j \in 1..Len(smp.data) : smp.index[i] = smp.index[j] => i = j
                /\ \A i \in 1..Len(smp.data) :
                     \E r \in 1..total : cl.index[r] = smp.index[i] /\ cl.data[r] = smp.data[i]
                /\ sample_size >= total =>
                     \A r \in 1..total :
                         Cardinality({i \in 1..Len(smp.data) : smp.index[i] = cl.index[r]}) = 1

\* a request for more rows than the table has, answered by all of them in another order
C5_Witness ==
    /\ C5_Sampled
    /\ sample_size = 3
    /\ Len(out.cleaned.data) = 2
    /\ out.sample.built
    /\ out.sample.index = <<1, 0>>

\* the places of the text where a maximal run of word characters equal to w starts
C6_Starts(text, w) ==
    {p \in 1..(Len(text) - Len(w) + 1) :
        /\ SubSeq(text, p, p + Len(w) - 1) = w
        /\ p = 1 \/ ~IsWordChar(text[p - 1])
        /\ p + Len(w) > Len(text) \/ ~IsWordChar(text[p + Len(w)])}

C6_First(text, w) == CHOOSE p \in C6_Starts(text, w) : \A q \in C6_Starts(text, w) : p <= q

\* the lowercased, space-joined titles of the dataframe
C6_Text == LowerText(JoinTexts([r \in 1..Len(df.data) |-> Col(df, TITLE)[r].s]))

\* C6: in top_title_words.csv no word is a stopword or of length <= 2; each word's
\* count is the number of its occurrences as a token of the lowercased, joined
\* titles; there are at most 200 words, by descending count and, among equal counts,
\* in first-encountered order; every token left out is a stopword, is too short, or
\* ranks after the last word kept; the title "COVID-19 vaccine trial results" alone
\* gives exactly vaccine, trial, results.
C6_TopTitleWords ==
    (entry = "explore" /\ pc = "done") =>
        LET t == out.top_words.rows
            text == C6_Text
        IN /\ out.top_words.made
           /\ Len(t) <= 200
           /\ \A i \in 1..Len(t) :
                /\ t[i].key \notin stopwords
                /\ Len(t[i].key) > 2
                /\ t[i].count = Cardinality(C6_Starts(text, t[i].key))
                /\ t[i].count > 0
           /\ \A i \in 1..(Len(t) - 1) :
                \/ t[i].count > t[i + 1].count
                \/ /\ t[i].count = t[i + 1].count
                   /\ C6_First(text, t[i].key) < C6_First(text, t[i + 1].key)
           /\ \A w \in Range(FindWords(text)) :
                \/ w \in stopwords
                \/ Len(w) <= 2
                \/ \E i \in 1..Len(t) : t[i].key = w
                \/ /\ Len(t) = 200
                   /\ LET n == Cardinality(C6_Starts(text, w))
                      IN \/ n < t[200].count
                         \/ n = t[200].count /\ C6_First(text, t[200].key) < C6_First(text, w)
           /\ InputFile.rows = << <<TITLE_EXAMPLE>> >> =>
                t = << [key |-> <<"v","a","c","c","i","n","e">>, count |-> 1],
                       [key |-> <<"t","r","i","a","l">>, count |-> 1],
                       [key |-> <<"r","e","s","u","l","t","s">>, count |-> 1] >>

\* more than 200 distinct words, one of them twice: the table is cut to 200 and the
\* repeated word leads it
C6_Witness ==
    /\ entry = "explore" /\ pc = "done"
    /\ Len(InputFile.rows) = 202
    /\ Len(out.top_words.rows) = 200
    /\ out.top_words.rows[1] = [key |-> <<"a","a","b">>, count |-> 2]

(***************************************************************************)
(* Inputs of the filter, aggregation and caching runs                      *)
(***************************************************************************)
MaxFilterRows == 2

\* the viewer on a CSV with all six columns, or with all but Publish Time
InitFilter ==
    /\ InitCommon
    /\ entry = "app"
    /\ fs \in {[full |-> FileOf(keep, rows), sample |-> NoFile] :
                  keep \in {1..6, {1, 2, 4, 5, 6}},
                  rows \in SeqsUpTo({ROW_FULL, ROW_NO_DATE, ROW_2019}, MaxFilterRows)}
    /\ sample_size = 0

SpecFilter == InitFilter /\ [][NextApp]_vars

\* a row of the i-th of a family of distinct journals and sources
JournalRow(i) ==
    << <<"t">>, <<>>, D_2020_03_15, <<>>, <<"j", Letters[i]>>, <<"s", Letters[i]>> >>

MaxDistinct == 16
MaxAggExtra == 2

\* n rows of n distinct journals, then the extra rows
AggRows(n, extra) ==
    [r \in 1..(n + Len(extra)) |-> IF r <= n THEN JournalRow(r) ELSE extra[r - n]]

InitAgg ==
    /\ InitCommon
    /\ entry \in {"explore", "app"}
    /\ fs \in {[full |-> FileOf(keep, AggRows(n, extra)), sample |-> NoFile] :
                  keep \in {1..6, {1, 2, 3, 4}},
                  n \in 0..MaxDistinct,
                  extra \in SeqsUpTo({ROW_EMPTY, ROW_BAD_DATE, JournalRow(1)}, MaxAggExtra)}
    /\ sample_size = 0

SpecAgg == InitAgg /\ [][NextAgg]_vars

InitCache ==
    /\ InitCommon
    /\ entry = "app"
    /\ fs \in {[full |-> f, sample |-> g] :
                  f \in {NoFile, ZeroByteFile, File(RawHeaders, <<ROW_FULL, ROW_2019>>),
                         File(<<RawHeaders[1]>>, <<>>)},
                  g \in {NoFile, File(RawHeaders, <<ROW_NO_DATE>>)}}
    /\ sample_size = 0

SpecCache == InitCache /\ [][NextViewer]_vars

(***************************************************************************)
(* Properties of the tables, the filters and the cache                     *)
(***************************************************************************)
\* the key the claim gives an input text: "Unknown" for a null
C7_Key(t) == IF IsNA(t) THEN UNKNOWN ELSE t

\* t counts keys: one entry for each distinct key with the number of its
\* occurrences, by descending count, cut to the n largest
C7_TableOf(t, keys, n) ==
    /\ \A i, j \in 1..Len(t) : t[i].key = t[j].key => i = j
    /\ \A i \in 1..Len(t) :
         /\ t[i].key.k = "str"
         /\ t[i].count > 0
         /\ t[i].count = Cardinality({r \in 1..Len(keys) : keys[r] = t[i].key.s})
    /\ \A i \in 1..(Len(t) - 1) : t[i].count >= t[i + 1].count
    /\ Len(t) = Min(n, Cardinality(Range(keys)))
    /\ \A r \in 1..Len(keys) :
         \/ \E i \in 1..Len(t) : t[i].key.s = keys[r]
         \/ Cardinality({x \in 1..Len(keys) : keys[x] = keys[r]}) <= t[Len(t)].count

\* C7: the explorer's journal and source tables count the input's records per
\* distinct value with every null under "Unknown", by descending count, cut to the top
\* 15; the viewer's journal table does so for the filtered records, cut to the slider
\* value.
C7_TablesCountNullAsUnknown ==
    /\ (entry = "explore" /\ pc \in {"words", "done"}) =>
         /\ InputHas(5) =>
              /\ out.top_journals.made
              /\ C7_TableOf(out.top_journals.rows,
                            [r \in 1..Len(InputFile.rows) |-> C7_Key(InputText(5, r))], 15)
         /\ InputHas(6) =>
              /\ out.top_sources.made
              /\ C7_TableOf(out.top_sources.rows,
                            [r \in 1..Len(InputFile.rows) |-> C7_Key(InputText(6, r))], 15)
    /\ (entry = "app" /\ pc = "idle") =>
         /\ out.top_journals.made
         /\ C7_TableOf(out.top_journals.rows,
                       [i \in 1..Len(out.filtered.index) |->
                           C7_Key(InputText(5, out.filtered.index[i] + 1))],
                       widgets.top_n)

\* the rows the claim keeps: year within the range, source equal to the selected one
\* (any for "All"), title containing the query as literal text, case-insensitively
C9_Kept(d, w, r) ==
    /\ Col(d, YEAR)[r].k = "num"
    /\ Col(d, YEAR)[r].n >= w.year_range[1]
    /\ Col(d, YEAR)[r].n <= w.year_range[2]
    /\ w.selected_source = ALL \/ Col(d, SOURCE_X)[r] = Str(w.selected_source)
    /\ Col(d, TITLE)[r].k = "str"
    /\ ContainsLiteral(Col(d, TITLE)[r].s, w.title_query)

\* C9, where the data has years and a query is entered: a run of the script with any
\* filter setting does not raise, and its filtered set is exactly the loaded rows, in
\* their order, that the settings keep; the loaded dataset is unchanged.
C9_FilteredIsExactSubset ==
    (/\ entry = "app"
     /\ cache.set /\ HasYears(cache.df)
     /\ widgets.touched /\ Strip(widgets.title_query) # <<>>
     /\ pc \in {"charts", "idle", "raised"}) =>
        /\ error = ""
        /\ df = cache.df
        /\ LET Kept(r) == C9_Kept(df, widgets, r)
           IN out.filtered = KeepRows(df, [r \in 1..Len(df.data) |-> Kept(r)])

====
